---------------------------- MODULE Spec2Model ----------------------------
(***************************************************************************)
(* Model of the expense screen of student-expense-tracker                  *)
(* (src/ExpenseScreen.js): the React state of ExpenseScreen, the SQLite     *)
(* table it writes through db.runAsync / db.getAllAsync, the asynchronous   *)
(* store calls in flight, and the derived views (filter, totals).           *)
(*                                                                         *)
(* Conventions.                                                            *)
(*  - A JavaScript string is a sequence of one-character strings.           *)
(*  - A JavaScript number is an integer count of hundredths (Scale), or the *)
(*    value NaN.  The inputs the model types have at most two fraction      *)
(*    digits, so the representation is exact for them.                      *)
(*  - An instant (a Date) is a whole number of hours since the epoch        *)
(*    1970-01-01T00:00Z.  The device's time zone is a fixed offset tz in    *)
(*    hours (local = UTC + tz); daylight saving is not modelled.            *)
(*  - A date string "YYYY-MM-DD" is the record [y, m, d] of its fields.     *)
(*  - The table of App.js (title, amount, date) does not have the columns   *)
(*    the screen's statements name, and App.js imports a file that does not *)
(*    exist; the store is modelled as a table with the columns of the       *)
(*    screen's own SQL (id, amount, category, note, date).                  *)
(***************************************************************************)
EXTENDS Integers, Sequences, FiniteSets, TLC

VARIABLES
    expenses,   \* useState([]): the in-memory list, a sequence of rows
    filter,     \* useState('all')
    amount,     \* useState(''): the amount field of the form
    category,   \* useState('')
    note,       \* useState('')
    editingId,  \* useState(null)
    store,      \* the rows of table expenses (a set of records)
    seq,        \* sqlite_sequence of the table: the largest id ever assigned
    calls,      \* store calls in flight, in the order they were issued
    now,        \* the current instant, hours since the epoch
    tz,         \* the device's UTC offset in hours
    last,       \* history: "saveExpense" when the last step was saveExpense
                \* (kept by SpecSubmit only), else "-"
    editStored  \* history: the row of editingId was in the table when
                \* startEditing took it from the list

vars == <<expenses, filter, amount, category, note, editingId,
          store, seq, calls, now, tz, last, editStored>>

\* A value that may be null is a sequence: empty for null, <<v>> for v.
null == <<>>
Some(v) == <<v>>
Value(o) == o[1]

\* A number is [nan, val]: NaN, or the value val in hundredths.
NaN == [nan |-> TRUE, val |-> 0]
Number(v) == [nan |-> FALSE, val |-> v]

\* Hundredths per unit of a modelled number.
Scale == 100

----------------------------------------------------------------------------
(* Strings *)

Whitespace == {" "}
Digits == {"0", "1", "2", "3", "4", "5", "6", "7", "8", "9"}

DigitVal(c) ==
    CASE c = "0" -> 0 [] c = "1" -> 1 [] c = "2" -> 2 [] c = "3" -> 3
      [] c = "4" -> 4 [] c = "5" -> 5 [] c = "6" -> 6 [] c = "7" -> 7
      [] c = "8" -> 8 [] c = "9" -> 9

DigitChar(n) ==
    <<"0", "1", "2", "3", "4", "5", "6", "7", "8", "9">>[n + 1]

RECURSIVE TrimStart(_)
TrimStart(s) ==
    IF s # <<>> /\ Head(s) \in Whitespace THEN TrimStart(Tail(s)) ELSE s

RECURSIVE TrimEnd(_)
TrimEnd(s) ==
    IF s # <<>> /\ s[Len(s)] \in Whitespace
    THEN TrimEnd(SubSeq(s, 1, Len(s) - 1))
    ELSE s

\* String.prototype.trim
Trim(s) == TrimEnd(TrimStart(s))

\* The longest prefix of s made of digits.
RECURSIVE DigitRun(_)
DigitRun(s) ==
    IF s # <<>> /\ Head(s) \in Digits
    THEN <<Head(s)>> \o DigitRun(Tail(s))
    ELSE <<>>

RECURSIVE DigitsValue(_)
DigitsValue(ds) ==
    IF ds = <<>> THEN 0
    ELSE 10 * DigitsValue(SubSeq(ds, 1, Len(ds) - 1)) + DigitVal(ds[Len(ds)])

\* The value, in hundredths, of the fraction digits fs (at most two are kept;
\* the inputs of the model have no more).
FractionValue(fs) ==
    IF fs = <<>> THEN 0
    ELSE IF Len(fs) = 1 THEN 10 * DigitVal(fs[1])
    ELSE 10 * DigitVal(fs[1]) + DigitVal(fs[2])

\* parseFloat: skips leading white space, reads an optional sign, then the
\* longest prefix that is a decimal literal (digits, optionally a point and
\* digits); NaN when there is no digit.  What follows the literal is ignored.
\* (Exponents and "Infinity" are not in the alphabet of the modelled inputs.)
parseFloat(str) ==
    LET s0 == TrimStart(str)
        neg == s0 # <<>> /\ Head(s0) = "-"
        signed == s0 # <<>> /\ Head(s0) \in {"-", "+"}
        s1 == IF signed THEN Tail(s0) ELSE s0
        ip == DigitRun(s1)
        s2 == SubSeq(s1, Len(ip) + 1, Len(s1))
        hasPoint == s2 # <<>> /\ Head(s2) = "."
        fp == IF hasPoint THEN DigitRun(Tail(s2)) ELSE <<>>
        mag == Scale * DigitsValue(ip) + FractionValue(fp)
    IN  IF ip = <<>> /\ fp = <<>> THEN NaN
        ELSE IF neg THEN Number(0 - mag) ELSE Number(mag)

isNaN(x) == x.nan

RECURSIVE NatToString(_)
NatToString(n) ==
    IF n < 10 THEN <<DigitChar(n)>>
    ELSE NatToString(n \div 10) \o <<DigitChar(n % 10)>>

\* Number.prototype.toString for a non-negative number: the shortest decimal
\* literal (no trailing zeros in the fraction, no point for an integer).
NumberToString(x) ==
    LET ip == x \div Scale
        fr == x % Scale
    IN  IF fr = 0 THEN NatToString(ip)
        ELSE IF fr % 10 = 0
             THEN NatToString(ip) \o <<".", DigitChar(fr \div 10)>>
             ELSE NatToString(ip) \o <<".", DigitChar(fr \div 10), DigitChar(fr % 10)>>

----------------------------------------------------------------------------
(* Dates: the built-in Date, over the proleptic Gregorian calendar *)

HoursPerDay == 24

\* Days since the epoch of the civil date y-m-d (m is 1..12).
DaysFromCivil(y, m, d) ==
    LET yy == IF m <= 2 THEN y - 1 ELSE y
        era == yy \div 400
        yoe == yy - era * 400
        mp == IF m > 2 THEN m - 3 ELSE m + 9
        doy == (153 * mp + 2) \div 5 + d - 1
        doe == yoe * 365 + yoe \div 4 - yoe \div 100 + doy
    IN  era * 146097 + doe - 719468

\* The civil date [y, m, d] of a day number.
CivilFromDays(z0) ==
    LET z == z0 + 719468
        era == z \div 146097
        doe == z - era * 146097
        yoe == (doe - doe \div 1460 + doe \div 36524 - doe \div 146096) \div 365
        doy == doe - (365 * yoe + yoe \div 4 - yoe \div 100)
        mp == (5 * doy + 2) \div 153
        dd == doy - (153 * mp + 2) \div 5 + 1
        mm == IF mp < 10 THEN mp + 3 ELSE mp - 9
    IN  [y |-> IF mm <= 2 THEN yoe + era * 400 + 1 ELSE yoe + era * 400,
         m |-> mm, d |-> dd]

\* The day number of the calendar day an instant falls in, at offset off.
DayOf(t, off) == (t + off) \div HoursPerDay

\* Date.prototype.getDay at offset off: 0 is Sunday (the epoch was a Thursday).
getDay(t, off) == (DayOf(t, off) + 4) % 7

\* d.toISOString().split('T')[0]: the UTC calendar date of the instant.
ISODate(t) == CivilFromDays(DayOf(t, 0))

\* new Date("YYYY-MM-DD"): a date-only string is midnight UTC of that date.
DateParse(ds) == DaysFromCivil(ds.y, ds.m, ds.d) * HoursPerDay

\* The local calendar date of an instant.
LocalDate(t, off) == CivilFromDays(DayOf(t, off))

\* new Date(y, monthIndex, 1): local midnight of the first of the month.
LocalMonthStart(t, off) ==
    LET c == LocalDate(t, off)
    IN  DaysFromCivil(c.y, c.m, 1) * HoursPerDay - off

\* startOfWeek = new Date(today); startOfWeek.setDate(getDate() - getDay()):
\* the day moves back to the Sunday, the time of day stays that of `today`.
StartOfWeek(t, off) == t - getDay(t, off) * HoursPerDay


----------------------------------------------------------------------------
(* What the user can type, and the bounds of the model *)

\* The forms the user fills in, as <<amount, category, note>>: an amount
\* that is not a number, a zero and a negative amount, a blank category, and
\* two forms that pass validation (one with white space to trim and a note,
\* one whose amount is followed by other characters and whose note is blank).
FormInputs ==
    { << <<"a", "b">>, <<"F", "d">>, <<" ">> >>,
      << <<"0">>, <<"F", "d">>, <<" ">> >>,
      << <<"-", "3">>, <<"F", "d">>, <<" ">> >>,
      << <<"1", "2", ".", "5">>, <<" ">>, <<" ", "l", "u">> >>,
      << <<"1", "2", ".", "5">>, <<" ", "B", "k", " ">>, <<" ", "l", "u">> >>,
      << <<"7", "x">>, <<"F", "d">>, <<" ">> >> }

\* The forms of Spec, whose subject is the store calls: one that fails
\* validation and the two that pass.
SpecForms ==
    { << <<"0">>, <<"F", "d">>, <<" ">> >>,
      << <<"1", "2", ".", "5">>, <<" ", "B", "k", " ">>, <<" ", "l", "u">> >>,
      << <<"7", "x">>, <<"F", "d">>, <<" ">> >> }

FilterModes == {"all", "week", "month"}

\* UTC offsets of the device, in hours.
TimeZones == {0 - 5, 0, 9}

\* The largest id the table assigns in a run.
MaxId == 2
\* Store calls the user's commands may leave in flight at once.
MaxInFlight == 2
\* Hours the clock advances in a run of Spec.
MaxTicks == 1

\* 2024-06-01T23:00Z, a Saturday evening in UTC: the next hour is Sunday
\* 2024-06-02 in UTC, and the local date differs from the UTC date for the
\* offsets -5 and 9.
SpecStart == DaysFromCivil(2024, 6, 1) * HoursPerDay + 23

----------------------------------------------------------------------------
(* The store: table expenses behind db.runAsync / db.getAllAsync *)

Ids(rows) == { r.id : r \in rows }

\* 'INSERT INTO expenses (amount, category, note, date) VALUES (?, ?, ?, ?);'
\* with id INTEGER PRIMARY KEY AUTOINCREMENT: the id is one more than the
\* largest id the table ever assigned.
InsertRow(rows, s, p) ==
    rows \cup { [id |-> s + 1, amount |-> p.amount, category |-> p.category,
                 note |-> p.note, date |-> p.date] }

\* UpdateRow with the WHERE clause left out: every row takes the new values.
UpdateRow_NoWhere(rows, p) ==
    { [r EXCEPT !.amount = p.amount, !.category = p.category, !.note = p.note]
      : r \in rows }

\* 'UPDATE expenses SET amount = ?, category = ?, note = ? WHERE id = ?;'
UpdateRow(rows, p) ==
    { IF r.id = p.id
      THEN [r EXCEPT !.amount = p.amount, !.category = p.category,
                     !.note = p.note]
      ELSE r : r \in rows }

\* DeleteRow by position in the list instead of by id, as splice(indexOf(id), 1)
\* would: when the id is absent the index is -1 and the last row goes.
DeleteRow_ByPosition(rows, p) ==
    IF p.id \in Ids(rows) THEN { r \in rows : r.id # p.id }
    ELSE { r \in rows : \E q \in rows : q.id < r.id }

\* 'DELETE FROM expenses WHERE id = ?;'
DeleteRow(rows, p) == { r \in rows : r.id # p.id }

\* 'SELECT * FROM expenses ORDER BY id DESC;'
RECURSIVE SelectAllDesc(_)
SelectAllDesc(rows) ==
    IF rows = {} THEN <<>>
    ELSE LET top == CHOOSE r \in rows : \A q \in rows : q.id <= r.id
         IN  <<top>> \o SelectAllDesc(rows \ {top})

\* The table after the store has run call c.
StoreAfter(rows, s, c) ==
    CASE c.kind = "insert" -> InsertRow(rows, s, c.params)
      [] c.kind = "update" -> UpdateRow(rows, c.params)
      [] c.kind = "delete" -> DeleteRow(rows, c.params)
      [] OTHER -> rows

\* result.changes of runAsync: the rows the statement touched.
Changes(rows, c) ==
    CASE c.kind = "insert" -> 1
      [] c.kind \in {"update", "delete"} ->
            Cardinality({ r \in rows : r.id = c.params.id })
      [] OTHER -> 0

NoParams == [none |-> TRUE]

\* A call as issued: nothing has run yet.
\* (stored is history: for an update, editStored when it was issued.)
Call(kind, from, params, stored) ==
    [kind |-> kind, from |-> from, params |-> params, st |-> "pending",
     rows |-> <<>>, changes |-> 0, stored |-> stored]

Range(sq) == { sq[k] : k \in DOMAIN sq }

Pending(cs) == { i \in DOMAIN cs : cs[i].st = "pending" }
Done(cs) == { i \in DOMAIN cs : cs[i].st = "done" }

RemoveAt(cs, i) == SubSeq(cs, 1, i - 1) \o SubSeq(cs, i + 1, Len(cs))

\* Inserts issued and not yet run.
PendingInserts(cs) ==
    Cardinality({ i \in Pending(cs) : cs[i].kind = "insert" })

----------------------------------------------------------------------------
(* The derived views *)

\* getFilteredExpenses: the rows whose date, as new Date(e.date), lies between
\* the start of the range and `today` (the current instant).
InRange(e, start, t) == DateParse(e.date) >= start /\ DateParse(e.date) <= t

RECURSIVE FilterSeq(_, _, _)
FilterSeq(es, start, t) ==
    IF es = <<>> THEN <<>>
    ELSE IF InRange(Head(es), start, t)
         THEN <<Head(es)>> \o FilterSeq(Tail(es), start, t)
         ELSE FilterSeq(Tail(es), start, t)

getFilteredExpenses(es, f, t, off) ==
    IF f = "week" THEN FilterSeq(es, StartOfWeek(t, off), t)
    ELSE IF f = "month" THEN FilterSeq(es, LocalMonthStart(t, off), t)
    ELSE es

\* The rows on screen.
Filtered == getFilteredExpenses(expenses, filter, now, tz)

\* getTotalSpending: filtered.reduce((sum, e) => sum + e.amount, 0)
RECURSIVE SumAmounts(_)
SumAmounts(es) ==
    IF es = <<>> THEN 0
    ELSE SumAmounts(SubSeq(es, 1, Len(es) - 1)) + es[Len(es)].amount

getTotalSpending(es, f, t, off) == SumAmounts(getFilteredExpenses(es, f, t, off))

\* Property names every object literal {} inherits from Object.prototype
\* (those the modelled categories can collide with).
ProtoConstructor == <<"c", "o", "n", "s", "t", "r", "u", "c", "t", "o", "r">>
ProtoProto == <<"_", "_", "p", "r", "o", "t", "o", "_", "_">>
ObjectPrototypeKeys == {ProtoConstructor, ProtoProto}

\* A JavaScript value held in or read from the totals object: nothing, a
\* number, an inherited function or object, or a string (a concatenation).
JsUndefined == [type |-> "undefined", val |-> 0]
JsNumber(v) == [type |-> "number", val |-> v]
JsInherited == [type |-> "object", val |-> 0]
JsString(v) == [type |-> "string", val |-> v]

\* totals[key]: the own property, else the one inherited from Object.prototype.
GetProp(obj, key) ==
    IF key \in DOMAIN obj THEN obj[key]
    ELSE IF key \in ObjectPrototypeKeys THEN JsInherited
    ELSE JsUndefined

\* !value
Falsy(v) == v.type = "undefined" \/ (v.type = "number" /\ v.val = 0)

\* value + number: an addition of numbers, else a string concatenation.
JsAdd(v, n) ==
    IF v.type = "number" THEN JsNumber(v.val + n) ELSE JsString(n)

\* totals[key] = value: an own property, except that assigning a value that
\* is not an object to __proto__ does nothing.
SetProp(obj, key, v) ==
    IF key = ProtoProto THEN obj
    ELSE [k \in DOMAIN obj \cup {key} |-> IF k = key THEN v ELSE obj[k]]

\* The body of the forEach of getTotalsByCategory for one row.
Accumulate(totals, e) ==
    LET t0 == IF Falsy(GetProp(totals, e.category))
              THEN SetProp(totals, e.category, JsNumber(0))
              ELSE totals
    IN  SetProp(t0, e.category, JsAdd(GetProp(t0, e.category), e.amount))

RECURSIVE AccumulateAll(_, _)
AccumulateAll(totals, es) ==
    IF es = <<>> THEN totals
    ELSE AccumulateAll(Accumulate(totals, Head(es)), Tail(es))

\* The object literal {}: no own property.
EmptyObject == [k \in {} |-> JsUndefined]

getTotalsByCategory(es, f, t, off) ==
    AccumulateAll(EmptyObject, getFilteredExpenses(es, f, t, off))

----------------------------------------------------------------------------
(* The handlers *)

\* getToday
getToday(t) == ISODate(t)

\* Validated with `< 0` for `<= 0`: an amount of zero passes.
Validated_ZeroPasses(a, c) ==
    /\ ~(isNaN(parseFloat(a)) \/ parseFloat(a).val < 0)
    /\ Trim(c) # <<>>

\* The two early returns of saveExpense.
Validated(a, c) ==
    /\ ~(isNaN(parseFloat(a)) \/ parseFloat(a).val <= 0)
    /\ Trim(c) # <<>>

\* note.trim() || null
TrimmedNote(n) == IF Trim(n) = <<>> THEN null ELSE Some(Trim(n))

\* The call saveExpense issues for the form as it stands.
SaveCall ==
    IF editingId = null
    THEN Call("insert", "saveExpense",
              [amount |-> parseFloat(amount).val,
               category |-> Trim(category), note |-> TrimmedNote(note),
               date |-> getToday(now)], FALSE)
    ELSE Call("update", "saveExpense",
              [id |-> Value(editingId), amount |-> parseFloat(amount).val,
               category |-> Trim(category), note |-> TrimmedNote(note)],
              editStored)

\* The screen after its first render and its effect (useEffect: loadExpenses).
InitScreen ==
    /\ expenses = <<>>
    /\ filter = "all"
    /\ amount = <<>>
    /\ category = <<>>
    /\ note = <<>>
    /\ editingId = null
    /\ store = {}
    /\ seq = 0
    /\ calls = <<Call("getAll", "loadExpenses", NoParams, FALSE)>>
    /\ now = SpecStart
    /\ last = "-"
    /\ editStored = FALSE

\* The user fills in the form: onChangeText = setAmount, setCategory, setNote.
typeForm(forms) ==
    /\ \E f \in forms :
          /\ amount' = f[1]
          /\ category' = f[2]
          /\ note' = f[3]
    /\ last' = "-"
    /\ UNCHANGED <<expenses, filter, editingId, store, seq, calls, now, tz, editStored>>

setFilter ==
    /\ \E f \in FilterModes : filter' = f
    /\ last' = "-"
    /\ UNCHANGED <<expenses, amount, category, note, editingId, store, seq,
                   calls, now, tz, editStored>>

\* saveExpense up to its await: the two early returns, then the store call
\* is issued.  (The model stops issuing calls at MaxInFlight in flight, and
\* inserts when the table's ids would pass MaxId; track says whether the
\* history variable last is kept.)
saveExpense(track) ==
    /\ IF Validated(amount, category)
       THEN /\ Len(calls) < MaxInFlight
            /\ editingId = null => seq + PendingInserts(calls) < MaxId
            /\ calls' = Append(calls, SaveCall)
       ELSE calls' = calls
    /\ last' = IF track THEN "saveExpense" ELSE "-"
    /\ UNCHANGED <<expenses, filter, amount, category, note, editingId,
                   store, seq, now, tz, editStored>>

\* deleteExpense(item.id) for a row on screen, up to its await.
deleteExpense ==
    /\ Len(calls) < MaxInFlight
    /\ \E k \in DOMAIN Filtered :
          calls' = Append(calls, Call("delete", "deleteExpense",
                                      [id |-> Filtered[k].id], FALSE))
    /\ last' = "-"
    /\ UNCHANGED <<expenses, filter, amount, category, note, editingId,
                   store, seq, now, tz, editStored>>

\* startEditing(item) for a row on screen.
startEditing ==
    /\ \E k \in DOMAIN Filtered :
          LET item == Filtered[k]
          IN  /\ editingId' = Some(item.id)
              /\ amount' = NumberToString(item.amount)
              /\ category' = item.category
              /\ note' = IF item.note = null THEN <<>> ELSE Value(item.note)
              /\ editStored' = (item.id \in Ids(store))
    /\ last' = "-"
    /\ UNCHANGED <<expenses, filter, store, seq, calls, now, tz>>

\* resetForm from the Cancel Edit button, shown while editingId is set.
resetForm ==
    /\ editingId # null
    /\ amount' = <<>>
    /\ category' = <<>>
    /\ note' = <<>>
    /\ editingId' = null
    /\ editStored' = FALSE
    /\ last' = "-"
    /\ UNCHANGED <<expenses, filter, store, seq, calls, now, tz>>

\* The store runs the oldest call that has not run yet (one connection runs
\* its statements in the order they were submitted).
StoreRuns ==
    /\ Pending(calls) # {}
    /\ LET i == CHOOSE k \in Pending(calls) : \A j \in Pending(calls) : k <= j
           c == calls[i]
       IN  /\ store' = StoreAfter(store, seq, c)
           /\ seq' = IF c.kind = "insert" THEN seq + 1 ELSE seq
           /\ calls' = [calls EXCEPT
                          ![i].st = "done",
                          ![i].changes = Changes(store, c),
                          ![i].rows = IF c.kind = "getAll"
                                      THEN SelectAllDesc(store)
                                      ELSE <<>>]
    /\ last' = "-"
    /\ UNCHANGED <<expenses, filter, amount, category, note, editingId,
                   now, tz, editStored>>

\* The promise of a runAsync issued by saveExpense resolves: resetForm(),
\* then loadExpenses() issues its read.  (Promises of calls that have run
\* resolve in any order.)
saveExpenseResumes ==
    /\ \E i \in Done(calls) :
          /\ calls[i].from = "saveExpense"
          /\ calls' = Append(RemoveAt(calls, i),
                             Call("getAll", "loadExpenses", NoParams, FALSE))
    /\ amount' = <<>>
    /\ category' = <<>>
    /\ note' = <<>>
    /\ editingId' = null
    /\ editStored' = FALSE
    /\ last' = "-"
    /\ UNCHANGED <<expenses, filter, store, seq, now, tz>>

\* The promise of deleteExpense's runAsync resolves: loadExpenses().
deleteExpenseResumes ==
    /\ \E i \in Done(calls) :
          /\ calls[i].from = "deleteExpense"
          /\ calls' = Append(RemoveAt(calls, i),
                             Call("getAll", "loadExpenses", NoParams, FALSE))
    /\ last' = "-"
    /\ UNCHANGED <<expenses, filter, amount, category, note, editingId,
                   store, seq, now, tz, editStored>>

\* The promise of loadExpenses' getAllAsync resolves: setExpenses(rows).
loadExpensesResumes ==
    /\ \E i \in Done(calls) :
          /\ calls[i].from = "loadExpenses"
          /\ expenses' = calls[i].rows
          /\ calls' = RemoveAt(calls, i)
    /\ last' = "-"
    /\ UNCHANGED <<filter, amount, category, note, editingId, store, seq,
                   now, tz, editStored>>

\* An hour passes.
Tick(horizon) ==
    /\ now < horizon
    /\ now' = now + 1
    /\ last' = "-"
    /\ UNCHANGED <<expenses, filter, amount, category, note, editingId,
                   store, seq, calls, tz, editStored>>

\* The screen's commands over the store: every handler but setFilter (with
\* filter 'all' no handler reads the clock's zone, so one zone stands for all).
Init ==
    /\ InitScreen
    /\ tz = 0

Next ==
    \/ typeForm(SpecForms)
    \/ saveExpense(FALSE)
    \/ deleteExpense
    \/ startEditing
    \/ resetForm
    \/ StoreRuns
    \/ saveExpenseResumes
    \/ deleteExpenseResumes
    \/ loadExpensesResumes
    \/ Tick(SpecStart + MaxTicks)

Spec == Init /\ [][Next]_vars

\* Submit alone, in every zone and over every form of FormInputs, with the
\* history of submits kept.
InitSubmit ==
    /\ InitScreen
    /\ tz \in TimeZones

NextSubmit ==
    \/ typeForm(FormInputs)
    \/ saveExpense(TRUE)
    \/ startEditing
    \/ resetForm
    \/ StoreRuns
    \/ saveExpenseResumes
    \/ loadExpensesResumes
    \/ Tick(SpecStart + MaxTicks)

SpecSubmit == InitSubmit /\ [][NextSubmit]_vars

----------------------------------------------------------------------------
(* The derived views over bounded lists, instants and time zones *)

\* Rows of the lists the views are computed over.
MaxView == 2

\* 2024-06-01T00:00Z, a Saturday, to 2024-06-02T23:00Z, a Sunday: the local
\* clocks of the three zones pass a month's first day and a Sunday.
ViewStart == DaysFromCivil(2024, 6, 1) * HoursPerDay
ViewEnd == DaysFromCivil(2024, 6, 3) * HoursPerDay - 1

\* Saturday 25 May, Sunday 26 May, Friday 31 May, Saturday 1 June, Sunday 2 June.
ViewDates ==
    { [y |-> 2024, m |-> 5, d |-> 25], [y |-> 2024, m |-> 5, d |-> 26],
      [y |-> 2024, m |-> 5, d |-> 31], [y |-> 2024, m |-> 6, d |-> 1],
      [y |-> 2024, m |-> 6, d |-> 2] }

ViewAmounts == {5 * Scale, 10 * Scale}

ViewCategories == { <<"F", "d">>, <<"B", "k">>, ProtoConstructor }

\* Lists as getAllAsync returns them: ids descending, here n, ..., 1.
ViewLists ==
    UNION { { [k \in 1..n |-> [id |-> n + 1 - k, amount |-> f[k][1],
                                category |-> f[k][2], note |-> null,
                                date |-> f[k][3]]]
              : f \in [1..n -> ViewAmounts \X ViewCategories \X ViewDates] }
            : n \in 0..MaxView }

InitView ==
    /\ expenses \in ViewLists
    /\ filter = "all"
    /\ amount = <<>>
    /\ category = <<>>
    /\ note = <<>>
    /\ editingId = null
    /\ store = Range(expenses)
    /\ seq = Len(expenses)
    /\ calls = <<>>
    /\ now = ViewStart
    /\ tz \in TimeZones
    /\ last = "-"
    /\ editStored = FALSE

NextView ==
    \/ setFilter
    \/ Tick(ViewEnd)

SpecView == InitView /\ [][NextView]_vars


----------------------------------------------------------------------------
(* Properties of the commands *)

\* The store ran call i in this step.
Ran(i) ==
    /\ i \in DOMAIN calls
    /\ Len(calls') = Len(calls)
    /\ calls[i].st = "pending"
    /\ calls'[i].st = "done"
    /\ calls'[i].kind = calls[i].kind
    /\ calls'[i].params = calls[i].params

\* A form a Submit must refuse: the amount does not parse to a number greater
\* than 0, or the category is empty after trimming.
Refused(a, c) ==
    \/ parseFloat(a).nan
    \/ parseFloat(a).val <= 0
    \/ Trim(c) = <<>>

\* The note a Submit stores: trimmed, and absent when blank.
StoredNote(n) == IF Trim(n) = <<>> THEN null ELSE Some(Trim(n))

\* C1: a Submit of a form whose amount does not parse to a number greater
\* than 0, or whose category is blank, issues no store call and leaves the
\* stored records (and the list) as they were, with or without a target id.
C1_RefusedSubmitWritesNothing ==
    [][ (last' = "saveExpense" /\ Refused(amount, category))
          => (calls' = calls /\ store' = store /\ expenses' = expenses) ]_vars

\* C1's case: a Submit has just been refused while a stored row was being edited.
C1_Witness ==
    /\ last = "saveExpense"
    /\ Refused(amount, category)
    /\ editingId # null
    /\ store # {}

\* What a validated Submit with no target id hands to the store, with `date`
\* the date the claim or the code names.
InsertIssued(date) ==
    (last' = "saveExpense" /\ ~Refused(amount, category) /\ editingId = null)
      => /\ Len(calls') = Len(calls) + 1
         /\ calls'[Len(calls')].kind = "insert"
         /\ calls'[Len(calls')].params =
               [amount |-> parseFloat(amount).val, category |-> Trim(category),
                note |-> StoredNote(note), date |-> date]

\* What the table holds once the store has run an insert: exactly one record
\* that was not there before, with the fields of the call, and every record
\* stored before.
InsertStored ==
    \A i \in DOMAIN calls :
        (Ran(i) /\ calls[i].kind = "insert")
          => \E r \in store' :
                /\ r.id \notin Ids(store)
                /\ store' = store \cup {r}
                /\ [amount |-> r.amount, category |-> r.category,
                    note |-> r.note, date |-> r.date] = calls[i].params

\* A reload hands the list the rows of the table as they were when it ran.
ReloadShows ==
    \A i \in DOMAIN calls :
        (Ran(i) /\ calls[i].kind = "getAll")
          => /\ Range(calls'[i].rows) = store
             /\ Len(calls'[i].rows) = Cardinality(store)

\* C2: a validated Submit with no target id adds exactly one record, carrying
\* the parsed amount, the trimmed category, the trimmed note (absent when
\* blank) and today's LOCAL calendar date at the time of the call; records
\* stored before are unchanged and a reload shows the table.
C2_InsertDatedLocalToday ==
    [][ InsertIssued(LocalDate(now, tz)) /\ InsertStored /\ ReloadShows ]_vars

\* C2 as the code has it: the date is the UTC calendar date of the call.
C2_InsertDatedUTCToday ==
    [][ InsertIssued(ISODate(now)) /\ InsertStored /\ ReloadShows ]_vars

\* The effect of an update on the records of other ids: none.
OthersUntouched(id) ==
    /\ { r \in store : r.id # id } = { r \in store' : r.id # id }
    /\ Cardinality(store') = Cardinality(store)

\* The record of id after an update is the one before with the amount,
\* category and note of the call; its id and date are the same.
RecordEdited(p) ==
    \A b \in { r \in store : r.id = p.id } :
    \A a \in { r \in store' : r.id = p.id } :
        a = [id |-> b.id, date |-> b.date, amount |-> p.amount,
             category |-> p.category, note |-> p.note]

\* C3 as claimed: a validated Submit with a target id taken by StartEdit from
\* a stored record changes only that record's amount, category and note, and
\* the store still holds exactly one record with that id.
C3_EditKeepsExactlyOneRecord ==
    [][ \A i \in DOMAIN calls :
          (Ran(i) /\ calls[i].kind = "update" /\ calls[i].stored)
            => /\ OthersUntouched(calls[i].params.id)
               /\ RecordEdited(calls[i].params)
               /\ Cardinality({ r \in store' : r.id = calls[i].params.id }) = 1
      ]_vars

\* C3 as claimed, for an update that runs with no other call in flight: it
\* fails without any overlap of store calls too.
C3_EditKeepsExactlyOneRecordAlone ==
    [][ \A i \in DOMAIN calls :
          (Ran(i) /\ calls[i].kind = "update" /\ calls[i].stored
             /\ Len(calls) = 1)
            => Cardinality({ r \in store' : r.id = calls[i].params.id }) = 1
      ]_vars

\* C3 amended: the update changes only the amount, category and note of the
\* record with the target id, whose id and date stay, and no other record;
\* the store holds exactly one record with that id if it held one when the
\* update ran, and is left as it was if that record had been deleted.
C3_EditChangesOnlyItsRecord ==
    [][ \A i \in DOMAIN calls :
          (Ran(i) /\ calls[i].kind = "update")
            => LET id == calls[i].params.id
               IN  /\ OthersUntouched(id)
                   /\ RecordEdited(calls[i].params)
                   /\ id \in Ids(store)
                        => Cardinality({ r \in store' : r.id = id }) = 1
                   /\ id \notin Ids(store) => store' = store
      ]_vars

\* C3's case: an update has run on a stored record, beside another record.
C3_Witness ==
    \E i \in DOMAIN calls :
        /\ calls[i].kind = "update"
        /\ calls[i].st = "done"
        /\ calls[i].changes = 1
        /\ calls[i].stored
        /\ Cardinality(store) >= 2

\* C4: Delete removes exactly the record with its id; running it again
\* leaves the same records and the same reloaded list; on an id that is not
\* in the store it removes nothing, changes no record, and completes.
C4_DeleteIsIdempotent ==
    [][ \A i \in DOMAIN calls :
          (Ran(i) /\ calls[i].kind = "delete")
            => LET p == calls[i].params
               IN  /\ store' = { r \in store : r.id # p.id }
                   /\ DeleteRow(store', p) = store'
                   /\ SelectAllDesc(DeleteRow(store', p)) = SelectAllDesc(store')
                   /\ p.id \notin Ids(store)
                        => (store' = store /\ calls'[i].changes = 0)
                   /\ calls'[i].st = "done"
      ]_vars

\* C4's case: a Delete has run on an id that was no longer in the store,
\* which still holds a record.
C4_Witness ==
    \E i \in DOMAIN calls :
        /\ calls[i].kind = "delete"
        /\ calls[i].st = "done"
        /\ calls[i].changes = 0
        /\ store # {}

\* C9: store calls never overlap: at most one read or write is in flight,
\* and no read is in flight while a write is.
C9_StoreCallsNeverOverlap ==
    /\ Len(calls) <= 1
    /\ (\E i \in DOMAIN calls : calls[i].kind # "getAll")
         => ~(\E j \in DOMAIN calls : calls[j].kind = "getAll")

\* C9 for the commands' writes alone: at most one runAsync is in flight.
C9_WritesNeverOverlap ==
    Cardinality({ i \in DOMAIN calls : calls[i].kind # "getAll" }) <= 1

\* C10: once every store call and every reload has completed, the list holds
\* exactly the records of the store, newest id first.
C10_ListMatchesStoreWhenIdle ==
    calls = <<>> => expenses = SelectAllDesc(store)

----------------------------------------------------------------------------
(* Properties of the derived views *)

\* The day number of a date string read as a calendar date.
DayNumber(ds) == DaysFromCivil(ds.y, ds.m, ds.d)

\* Today, as a local calendar day.
LocalToday == DayOf(now, tz)

\* The most recent Sunday on or before today.
WeekStartDay == LocalToday - getDay(now, tz)

\* The first day of the current local calendar month.
MonthStartDay ==
    DaysFromCivil(LocalDate(now, tz).y, LocalDate(now, tz).m, 1)

Shown(e) == e \in Range(Filtered)

\* C5: in mode week the view holds a record iff its date lies between the
\* most recent Sunday on or before today and today, both included.
C5_WeekViewIsSundayToToday ==
    filter = "week"
      => \A e \in Range(expenses) :
            Shown(e) <=> (WeekStartDay <= DayNumber(e.date)
                          /\ DayNumber(e.date) <= LocalToday)

\* C6: in mode month the view holds a record iff its date lies between the
\* first day of the current local month and today, both included.
C6_MonthViewIsFirstToToday ==
    filter = "month"
      => \A e \in Range(expenses) :
            Shown(e) <=> (MonthStartDay <= DayNumber(e.date)
                          /\ DayNumber(e.date) <= LocalToday)

\* C7: a record dated with the date a Submit assigns now is in the week view
\* and in the month view.
C7_TodayIsAlwaysShown ==
    \A e \in Range(expenses) :
        (e.date = getToday(now) /\ filter \in {"week", "month"}) => Shown(e)

\* The sum of the amounts of the rows of es at the positions in ks.
RECURSIVE SumAt(_, _)
SumAt(es, ks) ==
    IF ks = {} THEN 0
    ELSE LET k == CHOOSE x \in ks : TRUE
         IN  es[k].amount + SumAt(es, ks \ {k})

\* The sum of the values of a totals mapping whose values are numbers.
RECURSIVE SumValues(_, _)
SumValues(totals, cs) ==
    IF cs = {} THEN 0
    ELSE LET c == CHOOSE x \in cs : TRUE
         IN  totals[c].val + SumValues(totals, cs \ {c})

\* C8: the totals by category have exactly the categories of the view as
\* keys, each mapped to the sum of its rows' amounts; the values add up to
\* the total spending, which is the sum of the view's amounts.
C8_TotalsAreSumsByCategory ==
    LET view == Filtered
        totals == getTotalsByCategory(expenses, filter, now, tz)
        total == getTotalSpending(expenses, filter, now, tz)
    IN  /\ DOMAIN totals = { view[k].category : k \in DOMAIN view }
        /\ \A c \in DOMAIN totals :
              totals[c] = JsNumber(SumAt(view, { k \in DOMAIN view :
                                                   view[k].category = c }))
        /\ total = SumAt(view, DOMAIN view)
        /\ SumValues(totals, DOMAIN totals) = total

\* C8 for lists without a category that names a property of Object.prototype.
C8_TotalsOfPlainCategories ==
    (\A e \in Range(expenses) : e.category \notin ObjectPrototypeKeys)
      => C8_TotalsAreSumsByCategory

=============================================================================
